---- MODULE Spec2Model ----
(***************************************************************************)
(* Model of the group-commit durability queue of                           *)
(* src/dataflow/src/persistence/mod.rs (GroupCommitQueueSet) together with *)
(* the log files it writes and the clock its timeouts read, and of the     *)
(* packet-routing state of a node of                                       *)
(* src/noria-server/dataflow/src/node/mod.rs (labels received and sent,    *)
(* the buffer of outgoing packets, resume and rekey).                      *)
(*                                                                         *)
(* Option<T> values are modelled as sequences: <<>> is None, <<x>> is      *)
(* Some(x).  Map<T> values are functions whose DOMAIN is the key set.      *)
(***************************************************************************)
EXTENDS Integers, Sequences, FiniteSets, TLC

\* ---------------------------------------------------------------- bounds
MaxNodes == 2
MaxCapacity == 2
MaxTimeout == 1
MaxTime == 3
MaxAppends == 3
Eps == 1
MaxLabel == 4
MaxChildren == 3
\* the largest label sent where the payloads vary
MaxEntries == 3

\* ------------------------------------------------------ program constants
BufUnit == 1024

Nodes == 1..MaxNodes
Records == {"a", "b", "c"}
DataSet == {<<"a">>, <<"b", "c">>}
Modes == {"MemoryOnly", "DeleteOnExit", "Permanent"}

VARIABLES
    params,             \* Parameters: queue_capacity, flush_timeout, mode, log_prefix
    domain_index,       \* GroupCommitQueueSet.domain_index
    domain_shard,       \* GroupCommitQueueSet.domain_shard
    pending_packets,    \* Map<Vec<Box<Packet>>>
    wait_start,         \* Map<time::Instant>
    files,              \* Map<(PathBuf, BufWriter<File>)>
    status,             \* "live", "dropped" or "crashed"
    now,                \* the clock read by Instant::now() / elapsed()
    fs,                 \* the file system: path -> [cache, disk]
    transaction_state,  \* transactions::DomainState (the time authority)
    ret,                \* value returned by the last operation
    op,                 \* the last operation and its arguments
    io,                 \* calls made by the last operation, in order
    debug,              \* DebugEvents sent by the last operation
    peak,               \* largest |pending[n]| seen inside the last operation
    enqueued,           \* history: packets appended per node since its last flush
    batches,            \* history: the batches flushed per node, in order
    unlinked,           \* history: per node, how many batches had been flushed when its file was last removed
    inherited,          \* history: per node, how many batches had been flushed when this queue set was created
    nappends,           \* history: number of append calls so far
    sinceCall,          \* history: time since the last flush_if_necessary call; Eps + 1 once a gap exceeded Eps
    sinceNone,          \* history: time since flush_if_necessary last returned none; Eps + 1 once a gap exceeded Eps
    appended,           \* history: per node, the data of every packet appended to it, in order, less what a drop or a crash discarded
    merged,             \* history: per node, the data of every merged packet returned for it, in order
    inner,              \* Node.inner: the NodeType variant of the node
    children,           \* Node.children: Vec<LocalNodeIndex>
    last_packet_received, \* Node.last_packet_received: HashMap<NodeIndex, usize>
    next_packet_to_send,  \* Node.next_packet_to_send: HashMap<NodeIndex, usize>
    buffer,             \* Node.buffer: Vec<(Box<Packet>, HashSet<NodeIndex>)>
    graph,              \* the Graph around the node: its outgoing neighbours and their domains
    finalized,          \* whether the DanglingDomainNode has been finalized into its domain
    panic               \* the assertion that ended the domain, if one did

vars == <<params, domain_index, domain_shard, pending_packets, wait_start, files,
          status, now, fs, transaction_state, ret, op, io, debug, peak,
          enqueued, batches, unlinked, inherited, nappends, sinceCall, sinceNone,
          appended, merged,
          inner, children, last_packet_received, next_packet_to_send, buffer,
          graph, finalized, panic>>

nodevars == <<inner, children, last_packet_received, next_packet_to_send, buffer,
              graph, finalized, panic>>

\* ------------------------------------------------------------- Option, Map
None == <<>>
Some(x) == <<x>>
IsSome(o) == Len(o) = 1
Unwrap(o) == o[1]

EmptyMap == [k \in {} |-> 0]
MapInsert(m, k, v) == [x \in (DOMAIN m) \cup {k} |-> IF x = k THEN v ELSE m[x]]
MapRemove(m, k) == [x \in (DOMAIN m) \ {k} |-> m[x]]

Min(S) == CHOOSE x \in S : \A y \in S : x <= y

IsPrefix(s, t) == Len(s) <= Len(t) /\ SubSeq(t, 1, Len(s)) = s

\* Records::append / Vec::append: concatenation of the record batches in order
RECURSIVE Flatten(_)
Flatten(ds) == IF ds = <<>> THEN <<>> ELSE Head(ds) \o Flatten(Tail(ds))

\* ------------------------------------------------------------ log encoding
\* serde_json::to_writer(&mut file, &data_to_flush): a JSON array whose
\* elements are the packets' record batches, each itself a JSON array.
\* The text is modelled as a sequence of tokens; a record is one token.
RECURSIVE JoinComma(_)
JoinComma(items) ==
    IF items = <<>> THEN <<>>
    ELSE IF Len(items) = 1 THEN Head(items)
    ELSE Head(items) \o <<",">> \o JoinComma(Tail(items))

ToJsonData(d) == <<"[">> \o JoinComma([i \in 1..Len(d) |-> <<d[i]>>]) \o <<"]">>

ToJson(ds) == <<"[">> \o JoinComma([i \in 1..Len(ds) |-> ToJsonData(ds[i])]) \o <<"]">>

\* what a log reader does with one line (without its newline): parse the
\* array of arrays back; Bad if the text is not such an array
Bad == <<"bad">>

RECURSIVE ParseFrom(_, _, _, _, _)
ParseFrom(s, i, st, acc, cur) ==
    IF i > Len(s) THEN (IF st = "end" THEN Some(acc) ELSE Bad)
    ELSE LET t == s[i] IN
      IF st = "start" /\ t = "[" THEN ParseFrom(s, i + 1, "outer_open", acc, cur)
      ELSE IF st \in {"outer_open", "outer_comma"} /\ t = "[" THEN ParseFrom(s, i + 1, "in_open", acc, <<>>)
      ELSE IF st \in {"outer_open", "outer_item"} /\ t = "]" THEN ParseFrom(s, i + 1, "end", acc, cur)
      ELSE IF st = "outer_item" /\ t = "," THEN ParseFrom(s, i + 1, "outer_comma", acc, cur)
      ELSE IF st \in {"in_open", "in_comma"} /\ t \in Records THEN ParseFrom(s, i + 1, "in_rec", acc, Append(cur, t))
      ELSE IF st \in {"in_open", "in_rec"} /\ t = "]" THEN ParseFrom(s, i + 1, "outer_item", Append(acc, cur), cur)
      ELSE IF st = "in_rec" /\ t = "," THEN ParseFrom(s, i + 1, "in_comma", acc, cur)
      ELSE Bad

FromJson(s) == ParseFrom(s, 1, "start", <<>>, <<>>)

\* the lines of a file: the text before each newline, and the text after the last one
RECURSIVE SplitLines(_, _, _)
SplitLines(s, lines, cur) ==
    IF s = <<>> THEN [lines |-> lines, tail |-> cur]
    ELSE IF Head(s) = "\n" THEN SplitLines(Tail(s), Append(lines, cur), <<>>)
    ELSE SplitLines(Tail(s), lines, Append(cur, Head(s)))

FileLines(text) == SplitLines(text, <<>>, <<>>).lines
FileTail(text) == SplitLines(text, <<>>, <<>>).tail

\* --------------------------------------------------------------- log files
\* Parameters::log_path: "{prefix}-log-{domain}_{shard}-{node}.json"
log_path(p, node, d_index, d_shard) == <<p.log_prefix, "-log-", d_index, "_", d_shard, "-", node, ".json">>

\* A file is [disk, cache]: the bytes that survive a crash and the bytes the
\* kernel holds but has not synced.  A writer is [path, buf, cap].
NewFile == [disk |-> <<>>, cache |-> <<>>]

\* the file opened with truncate(true) in place of append(true)
OpenTruncateCreate(store, path) == MapInsert(store, path, NewFile)

\* OpenOptions::new().append(true).create(true).open(&path)
OpenAppendCreate(store, path) ==
    IF path \in DOMAIN store THEN store ELSE MapInsert(store, path, NewFile)

\* BufWriter<File, WhenFull>::write: bytes gather in the buffer and go to the
\* file only when the buffer would overflow
BufWrite(w, store, bytes) ==
    IF Len(w.buf) + Len(bytes) > w.cap
    THEN [w |-> [w EXCEPT !.buf = <<>>],
          store |-> [store EXCEPT ![w.path].cache = @ \o w.buf \o bytes]]
    ELSE [w |-> [w EXCEPT !.buf = @ \o bytes], store |-> store]

\* BufWriter::flush: hand the buffered bytes to the file
BufFlush(w, store) ==
    [w |-> [w EXCEPT !.buf = <<>>],
     store |-> [store EXCEPT ![w.path].cache = @ \o w.buf]]

\* sync_data that syncs nothing
SyncData_skipped(w, store) == [w |-> w, store |-> store]

\* File::sync_data: the bytes handed to the file become durable
SyncData(w, store) ==
    [w |-> w,
     store |-> [store EXCEPT ![w.path] = [disk |-> @.disk \o @.cache, cache |-> <<>>]]]

\* what is readable from the file while the system runs
Content(f) == f.disk \o f.cache

\* ------------------------------------------------------------ packets
\* Packet::VtMessage { link, data, tracer, state }; writes to a base node
\* carry the link of that node
Link(n) == [src |-> n, dst |-> n]
VtMessage(n, d, tr) == [link |-> Link(n), data |-> d, tracer |-> tr, state |-> [tag |-> "Pending"]]

\* Tracer = Option<(u64, Option<Sender<DebugEvent>>)>; the k-th appended
\* packet is traced under tag k, its channel (when it has one) is channel k
Tracers(k) == {None, Some([tag |-> k, sender |-> None]), Some([tag |-> k, sender |-> Some(k)])}

\* DomainNodes: nodes[&n].borrow().global_addr()
nodes == [n \in Nodes |-> [global_addr |-> n + 10]]

\* transactions::DomainState::assign_time(base)
AssignTime(ts, base) ==
    [state |-> [ts EXCEPT !.time = @ + 1],
     assignment |-> [time |-> ts.time + 1, source |-> base, prev |-> ts.time]]

\* the match on (&merged_tracer, tracer) in the fold of merge_packets
TracerStep(merged_tracer, tracer) ==
    IF IsSome(merged_tracer) /\ IsSome(tracer) /\ IsSome(Unwrap(tracer).sender)
    THEN [tracer |-> merged_tracer,
          sent |-> <<[chan |-> Unwrap(Unwrap(tracer).sender),
                      event |-> [type |-> "Merged", mtag |-> Unwrap(merged_tracer).tag, tag |-> Unwrap(tracer).tag]]>>]
    ELSE IF IsSome(tracer)
    THEN [tracer |-> tracer, sent |-> <<>>]
    ELSE [tracer |-> merged_tracer, sent |-> <<>>]

\* packets.fold(Records::default(), |acc, p| ...) with its merged_tracer
RECURSIVE MergeFold(_, _)
MergeFold(packets, acc) ==
    IF packets = <<>> THEN acc
    ELSE LET p == Head(packets)
             t == TracerStep(acc.tracer, p.tracer)
         IN MergeFold(Tail(packets),
                      [data |-> acc.data \o p.data, tracer |-> t.tracer, sent |-> acc.sent \o t.sent])

\* merge_packets that keeps the records of the first packet only
merge_packets_first_only(packets, ts) ==
    IF packets = <<>>
    THEN [ret |-> None, ts |-> ts, io |-> <<>>, debug |-> <<>>]
    ELSE LET base == nodes[packets[1].link.dst].global_addr
             a == AssignTime(ts, base)
             m == MergeFold(packets, [data |-> <<>>, tracer |-> None, sent |-> <<>>])
         IN [ret |-> Some([link |-> packets[1].link,
                           data |-> packets[1].data,
                           tracer |-> m.tracer,
                           state |-> [tag |-> "VtCommitted",
                                      at |-> <<a.assignment.time, a.assignment.source>>,
                                      prev |-> a.assignment.prev,
                                      base |-> base]]),
             ts |-> a.state,
             io |-> <<"assign_time">>,
             debug |-> m.sent]

\* GroupCommitQueueSet::merge_packets
merge_packets(packets, ts) ==
    IF packets = <<>>
    THEN [ret |-> None, ts |-> ts, io |-> <<>>, debug |-> <<>>]
    ELSE LET base == nodes[packets[1].link.dst].global_addr
             a == AssignTime(ts, base)
             merged_link == packets[1].link
             m == MergeFold(packets, [data |-> <<>>, tracer |-> None, sent |-> <<>>])
         IN [ret |-> Some([link |-> merged_link,
                           data |-> m.data,
                           tracer |-> m.tracer,
                           state |-> [tag |-> "VtCommitted",
                                      at |-> <<a.assignment.time, a.assignment.source>>,
                                      prev |-> a.assignment.prev,
                                      base |-> base]]),
             ts |-> a.state,
             io |-> <<"assign_time">>,
             debug |-> m.sent]

\* GroupCommitQueueSet::get_or_create_file
get_or_create_file(node, store) ==
    LET path == log_path(params, node, domain_index, domain_shard)
    IN [store |-> OpenAppendCreate(store, path),
        writer |-> [path |-> path, buf |-> <<>>, cap |-> params.queue_capacity * BufUnit]]

\* the DeleteOnExit | Permanent arm of flush_internal, run for its first
\* `upto` steps: 1 open the file, 2 write the line, 3 flush, 4 sync_data
Persist(node, pend, upto) ==
    LET known == node \in DOMAIN files
        g == get_or_create_file(node, fs)
        w1 == IF known THEN files[node] ELSE g.writer
        st1 == IF known THEN fs ELSE g.store
        data_to_flush == [i \in 1..Len(pend[node]) |-> pend[node][i].data]
        s2a == BufWrite(w1, st1, ToJson(data_to_flush))
        s2 == BufWrite(s2a.w, s2a.store, <<"\n">>)
        s3 == BufFlush(s2.w, s2.store)
        s4 == SyncData(s3.w, s3.store)
        s == IF upto = 1 THEN [w |-> w1, store |-> st1]
             ELSE IF upto = 2 THEN s2
             ELSE IF upto = 3 THEN s3
             ELSE s4
    IN [files |-> MapInsert(files, node, s.w),
        store |-> s.store,
        io |-> SubSeq(<<"open", "write", "flush", "sync_data">>, IF known THEN 2 ELSE 1, upto)]

\* flush_internal that merges the packets before it persists them
flush_internal_merges_first(node, pend) ==
    LET per == IF params.mode \in {"DeleteOnExit", "Permanent"}
               THEN Persist(node, pend, 4)
               ELSE [files |-> files, store |-> fs, io |-> <<>>]
        m == merge_packets(pend[node], transaction_state)
    IN [pending |-> [pend EXCEPT ![node] = <<>>],
        wait_start |-> MapRemove(wait_start, node),
        files |-> per.files,
        store |-> per.store,
        ts |-> m.ts,
        ret |-> m.ret,
        io |-> m.io \o per.io,
        debug |-> m.debug]

\* flush_internal that leaves the wait_start entry in place
flush_internal_keeps_wait_start(node, pend) ==
    LET per == IF params.mode \in {"DeleteOnExit", "Permanent"}
               THEN Persist(node, pend, 4)
               ELSE [files |-> files, store |-> fs, io |-> <<>>]
        m == merge_packets(pend[node], transaction_state)
    IN [pending |-> [pend EXCEPT ![node] = <<>>],
        wait_start |-> wait_start,
        files |-> per.files,
        store |-> per.store,
        ts |-> m.ts,
        ret |-> m.ret,
        io |-> per.io \o m.io,
        debug |-> m.debug]

\* GroupCommitQueueSet::flush_internal, entered with pending_packets = pend
flush_internal(node, pend) ==
    LET per == IF params.mode \in {"DeleteOnExit", "Permanent"}
               THEN Persist(node, pend, 4)
               ELSE [files |-> files, store |-> fs, io |-> <<>>]
        m == merge_packets(pend[node], transaction_state)
    IN [pending |-> [pend EXCEPT ![node] = <<>>],
        wait_start |-> MapRemove(wait_start, node),
        files |-> per.files,
        store |-> per.store,
        ts |-> m.ts,
        ret |-> m.ret,
        io |-> per.io \o m.io,
        debug |-> m.debug]

\* wait_start.elapsed()
elapsed(instant) == now - instant

\* the scan with its comparison inverted
needs_flush_inverted ==
    LET late == {n \in DOMAIN wait_start : elapsed(wait_start[n]) < params.flush_timeout}
    IN IF late = {} THEN None ELSE Some(Min(late))

\* the scan with a strict comparison
needs_flush_strict ==
    LET late == {n \in DOMAIN wait_start : elapsed(wait_start[n]) > params.flush_timeout}
    IN IF late = {} THEN None ELSE Some(Min(late))

\* the scan of flush_if_necessary: the first entry of wait_start, in the
\* map's iteration order (ascending node index), that has timed out
needs_flush ==
    LET late == {n \in DOMAIN wait_start : elapsed(wait_start[n]) >= params.flush_timeout}
    IN IF late = {} THEN None ELSE Some(Min(late))

\* GroupCommitQueueSet::flush_if_necessary
flush_if_necessary ==
    IF IsSome(needs_flush)
    THEN flush_internal(Unwrap(needs_flush), pending_packets)
    ELSE [pending |-> pending_packets, wait_start |-> wait_start, files |-> files,
          store |-> fs, ts |-> transaction_state, ret |-> None, io |-> <<>>, debug |-> <<>>]


\* pushed with the packet put in front of the queue
pushed_front(p) ==
    LET node == p.link.dst
        pend0 == IF node \in DOMAIN pending_packets THEN pending_packets
                 ELSE MapInsert(pending_packets, node, <<>>)
    IN [pend0 EXCEPT ![node] = <<p>> \o @]

\* pending_packets after the push of append
pushed(p) ==
    LET node == p.link.dst
        pend0 == IF node \in DOMAIN pending_packets THEN pending_packets
                 ELSE MapInsert(pending_packets, node, <<>>)
    IN [pend0 EXCEPT ![node] = Append(@, p)]

\* append that flushes only once the queue is longer than the capacity
append_late(p) ==
    LET node == p.link.dst
        pend == pushed(p)
    IN IF Len(pend[node]) > params.queue_capacity
       THEN flush_internal(node, pend)
       ELSE [pending |-> pend,
             wait_start |-> IF node \in DOMAIN wait_start THEN wait_start
                            ELSE MapInsert(wait_start, node, now),
             files |-> files, store |-> fs, ts |-> transaction_state,
             ret |-> None, io |-> <<>>, debug |-> <<>>]

\* GroupCommitQueueSet::append
append(p) ==
    LET node == p.link.dst
        pend == pushed(p)
    IN IF Len(pend[node]) >= params.queue_capacity
       THEN flush_internal(node, pend)
       ELSE [pending |-> pend,
             wait_start |-> IF node \in DOMAIN wait_start THEN wait_start
                            ELSE MapInsert(wait_start, node, now),
             files |-> files, store |-> fs, ts |-> transaction_state,
             ret |-> None, io |-> <<>>, debug |-> <<>>]

\* what a crash leaves of the files: the synced bytes and, of the bytes the
\* kernel held, the first `cut`
CrashOutcome(store, cut) ==
    [path \in DOMAIN store |->
        [disk |-> store[path].disk \o SubSeq(store[path].cache, 1, IF cut <= Len(store[path].cache) THEN cut ELSE Len(store[path].cache)),
         cache |-> <<>>]]

\* ------------------------------------------------------------ node routing
\* NodeType: the variants of Node.inner that node/mod.rs matches on
NodeTypes == {"Ingress", "Internal", "Base", "Egress", "Sharder", "Reader", "Source", "Dropped"}

\* self.global_addr() of the node whose routing state is modelled
Me == MaxNodes + 11

\* the NodeIndex values of the node's peers: parents, children, replacements
NodeIndexes == {nodes[n].global_addr : n \in Nodes}

\* PacketId::new(label, me); id.label(), id.from()
PacketId(label, from) == [label |-> label, from |-> from]

\* Packet::Message { id, link, data, tracer }
Message(id, n, d) == [id |-> id, link |-> Link(n), data |-> d, tracer |-> None]

\* Packet::ReplayPiece { id, link, tag, data, .. }
ReplayPiece(id, n, d) == [id |-> id, link |-> Link(n), tag |-> id.label, data |-> d]

\* Packet::Input { inner, .. }
Input(n, d) == [inner |-> [link |-> Link(n), data |-> d]]

\* the variant of a packet, as a match on it tells
Variant(p) ==
    IF "state" \in DOMAIN p THEN "VtMessage"
    ELSE IF "inner" \in DOMAIN p THEN "Input"
    ELSE IF "tag" \in DOMAIN p THEN "ReplayPiece"
    ELSE "Message"

\* Packet::clone_data: the id, the link and the records, without the tracer
clone_data(m) ==
    IF Variant(m) = "Message" THEN [m EXCEPT !.tracer = None] ELSE m

\* Option::unwrap_or
unwrap_or(o, default) == IF IsSome(o) THEN Unwrap(o) ELSE default

\* HashMap::get
MapGet(m, k) == IF k \in DOMAIN m THEN Some(m[k]) ELSE None

\* Node::is_internal
is_internal(node) == node.inner = "Internal"

\* Node::get_base
get_base(node) == IF node.inner = "Base" THEN Some(node) ELSE None

\* DomainNodes: the nodes of the domain, node n of variant kinds[n]
DomainNodes(kinds) == [n \in Nodes |-> [global_addr |-> nodes[n].global_addr, inner |-> kinds[n]]]

\* GroupCommitQueueSet::packet_destination
packet_destination(p) == IF Variant(p) = "VtMessage" THEN Some(p.link.dst) ELSE None

\* GroupCommitQueueSet::should_append
should_append(p, ns) ==
    LET dest == packet_destination(p)
    IN IF IsSome(dest)
       THEN is_internal(ns[Unwrap(dest)]) /\ IsSome(get_base(ns[Unwrap(dest)]))
       ELSE FALSE

\* Duration::checked_sub
checked_sub(a, b) == IF a >= b THEN Some(a - b) ELSE None

\* Iterator::min
IterMin(S) == IF S = {} THEN None ELSE Some(Min(S))

\* duration_until_flush that waits for the last timeout instead of the first
duration_until_flush_last ==
    LET left == {unwrap_or(checked_sub(params.flush_timeout, elapsed(wait_start[n])), 0) :
                    n \in DOMAIN wait_start}
    IN IF left = {} THEN None ELSE Some(CHOOSE x \in left : \A y \in left : x >= y)

\* GroupCommitQueueSet::duration_until_flush
duration_until_flush ==
    IterMin({unwrap_or(checked_sub(params.flush_timeout, elapsed(wait_start[n])), 0) :
                n \in DOMAIN wait_start})

\* the routing state a handler of Node leaves, what it returns, the calls
\* it makes on the egress processor, and the assertion it dies on
Leaves(last, next, buf, result, calls, failed) ==
    [last |-> last, next |-> next, buffer |-> buf, ret |-> result, io |-> calls, panic |-> failed]

\* receive_packet that also takes the label it has already stored
receive_packet_allows_equal(m) ==
    IF Variant(m) = "Input"
    THEN Leaves(last_packet_received, next_packet_to_send, buffer, None, <<>>, None)
    ELSE IF Variant(m) \in {"Message", "ReplayPiece"}
    THEN LET from == m.id.from
             label == m.id.label
             old_label == MapGet(last_packet_received, from)
         IN Leaves(MapInsert(last_packet_received, from, label), next_packet_to_send, buffer, None, <<>>,
                   IF label >= unwrap_or(old_label, 0) THEN None
                   ELSE Some("label > old_label.unwrap_or(0)"))
    ELSE Leaves(last_packet_received, next_packet_to_send, buffer, None, <<>>, Some("unreachable"))

\* Node::receive_packet: the label is stored, then compared with the one it
\* replaced
receive_packet(m) ==
    IF Variant(m) = "Input"
    THEN Leaves(last_packet_received, next_packet_to_send, buffer, None, <<>>, None)
    ELSE IF Variant(m) \in {"Message", "ReplayPiece"}
    THEN LET from == m.id.from
             label == m.id.label
             old_label == MapGet(last_packet_received, from)
             inserted == MapInsert(last_packet_received, from, label)
         IN Leaves(inserted, next_packet_to_send, buffer, None, <<>>,
                   IF label > unwrap_or(old_label, 0) THEN None
                   ELSE Some("label > old_label.unwrap_or(0)"))
    ELSE Leaves(last_packet_received, next_packet_to_send, buffer, None, <<>>, Some("unreachable"))

\* new_incoming that leaves the old key in the map
new_incoming_keeps_old(old, new) ==
    LET label == unwrap_or(MapGet(last_packet_received, old), 0)
    IN Leaves(MapInsert(last_packet_received, new, label),
              next_packet_to_send, buffer, Some(label + 1), <<>>, None)

\* new_incoming that keeps the label of new when it is the larger one
new_incoming_keeps_larger(old, new) ==
    LET label == unwrap_or(MapGet(last_packet_received, old), 0)
        kept == unwrap_or(MapGet(MapRemove(last_packet_received, old), new), 0)
    IN Leaves(MapInsert(MapRemove(last_packet_received, old), new, IF kept > label THEN kept ELSE label),
              next_packet_to_send, buffer, Some(label + 1), <<>>, None)

\* Node::new_incoming
new_incoming(old, new) ==
    LET label == unwrap_or(MapGet(last_packet_received, old), 0)
    IN Leaves(MapInsert(MapRemove(last_packet_received, old), new, label),
              next_packet_to_send, buffer, Some(label + 1), <<>>, None)

\* Node::next_packet_id
next_packet_id == PacketId(Len(buffer) + 1, Me)

\* the first half of send_external_packet, storing the payload of a later
\* send of the same label over the recorded one
recorded_replaces(m, to) ==
    LET label == m.id.label
    IN IF label > Len(buffer)
       THEN Append(buffer, [packet |-> clone_data(m), to_nodes |-> {to}])
       ELSE [buffer EXCEPT ![label] = [packet |-> clone_data(m), to_nodes |-> @.to_nodes \cup {to}]]

\* the buffer after the first half of send_external_packet: a new entry for
\* the next label, or one more to-node in the entry of an earlier label
recorded(m, to) ==
    LET label == m.id.label
    IN IF label > Len(buffer)
       THEN Append(buffer, [packet |-> clone_data(m), to_nodes |-> {to}])
       ELSE [buffer EXCEPT ![label].to_nodes = @ \cup {to}]

\* send_external_packet without the assertion on the next label
send_external_packet_gapped(m, to) ==
    LET label == m.id.label
        old_label == MapGet(next_packet_to_send, to)
    IN IF m.id.from # Me
       THEN Leaves(last_packet_received, next_packet_to_send, buffer, None, <<>>,
                   Some("m.get_id().from() == self.global_addr()"))
       ELSE IF label < 1
       THEN Leaves(last_packet_received, next_packet_to_send, buffer, None, <<>>,
                   Some("buffer.get_mut(label - 1).unwrap()"))
       ELSE IF IsSome(old_label)
       THEN Leaves(last_packet_received, MapInsert(next_packet_to_send, to, label + 1),
                   recorded(m, to), Some(TRUE), <<>>, None)
       ELSE Leaves(last_packet_received, next_packet_to_send, recorded(m, to), Some(FALSE), <<>>, None)

\* send_external_packet that asks the gate before it writes the buffer, and
\* records nothing for a destination that is paused
send_external_packet_gate_first(m, to) ==
    LET label == m.id.label
        old_label == MapGet(next_packet_to_send, to)
    IN IF m.id.from # Me
       THEN Leaves(last_packet_received, next_packet_to_send, buffer, None, <<>>,
                   Some("m.get_id().from() == self.global_addr()"))
       ELSE IF label > Len(buffer) /\ label # Len(buffer) + 1
       THEN Leaves(last_packet_received, next_packet_to_send, buffer, None, <<>>,
                   Some("outgoing labels increase sequentially"))
       ELSE IF label < 1
       THEN Leaves(last_packet_received, next_packet_to_send, buffer, None, <<>>,
                   Some("buffer.get_mut(label - 1).unwrap()"))
       ELSE IF IsSome(old_label)
       THEN IF \E i \in Unwrap(old_label)..(label - 1) : to \in recorded(m, to)[i].to_nodes
            THEN Leaves(last_packet_received, next_packet_to_send, recorded(m, to), None, <<>>,
                        Some("!buffer[i - 1].1.contains(&to)"))
            ELSE Leaves(last_packet_received, MapInsert(next_packet_to_send, to, label + 1),
                        recorded(m, to), Some(TRUE), <<>>, None)
       ELSE Leaves(last_packet_received, next_packet_to_send,
                   IF label > Len(buffer)
                   THEN Append(buffer, [packet |-> clone_data(m), to_nodes |-> {}])
                   ELSE buffer,
                   Some(FALSE), <<>>, None)

\* send_external_packet without the assertion on the skipped entries
send_external_packet_unchecked(m, to) ==
    LET label == m.id.label
        old_label == MapGet(next_packet_to_send, to)
    IN IF m.id.from # Me
       THEN Leaves(last_packet_received, next_packet_to_send, buffer, None, <<>>,
                   Some("m.get_id().from() == self.global_addr()"))
       ELSE IF label > Len(buffer) /\ label # Len(buffer) + 1
       THEN Leaves(last_packet_received, next_packet_to_send, buffer, None, <<>>,
                   Some("outgoing labels increase sequentially"))
       ELSE IF label < 1
       THEN Leaves(last_packet_received, next_packet_to_send, buffer, None, <<>>,
                   Some("buffer.get_mut(label - 1).unwrap()"))
       ELSE IF IsSome(old_label)
       THEN Leaves(last_packet_received, MapInsert(next_packet_to_send, to, label + 1),
                   recorded(m, to), Some(TRUE), <<>>, None)
       ELSE Leaves(last_packet_received, next_packet_to_send, recorded(m, to), Some(FALSE), <<>>, None)

\* Node::send_external_packet
send_external_packet(m, to) ==
    LET label == m.id.label
        old_label == MapGet(next_packet_to_send, to)
    IN IF m.id.from # Me
       THEN Leaves(last_packet_received, next_packet_to_send, buffer, None, <<>>,
                   Some("m.get_id().from() == self.global_addr()"))
       ELSE IF label > Len(buffer) /\ label # Len(buffer) + 1
       THEN Leaves(last_packet_received, next_packet_to_send, buffer, None, <<>>,
                   Some("outgoing labels increase sequentially"))
       ELSE IF label < 1
       THEN Leaves(last_packet_received, next_packet_to_send, buffer, None, <<>>,
                   Some("buffer.get_mut(label - 1).unwrap()"))
       ELSE IF IsSome(old_label)
       THEN IF \E i \in Unwrap(old_label)..(label - 1) : to \in recorded(m, to)[i].to_nodes
            THEN Leaves(last_packet_received, next_packet_to_send, recorded(m, to), None, <<>>,
                        Some("!buffer[i - 1].1.contains(&to)"))
            ELSE Leaves(last_packet_received, MapInsert(next_packet_to_send, to, label + 1),
                        recorded(m, to), Some(TRUE), <<>>, None)
       ELSE Leaves(last_packet_received, next_packet_to_send, recorded(m, to), Some(FALSE), <<>>, None)

\* Node::send_internal_packet
send_internal_packet(m, to) ==
    LET r == send_external_packet(m, nodes[to].global_addr)
    IN IF IsSome(r.panic) THEN r
       ELSE IF Unwrap(r.ret) THEN [r EXCEPT !.ret = None]
       ELSE [r EXCEPT !.ret = None, !.panic = Some("self.send_external_packet(m, to)")]

\* e.process(&mut Some(box m.clone_data()), on_shard.unwrap_or(0), output, &to_nodes)
Process(m, on_shard, to_nodes) ==
    [m |-> clone_data(m), shard |-> unwrap_or(on_shard, 0), to_nodes |-> to_nodes]

\* resume_at that replays only the entries that list the node
resume_at_filtered(node, label, on_shard) ==
    IF inner = "Egress"
    THEN LET max_label == Len(buffer) + 1
             to_nodes == {node}
             listed == SelectSeq(SubSeq(buffer, label, max_label - 1), LAMBDA e : node \in e.to_nodes)
         IN IF label < 1 /\ label < max_label
            THEN Leaves(last_packet_received, next_packet_to_send, buffer, None, <<>>,
                        Some("self.buffer[i - 1]"))
            ELSE Leaves(last_packet_received, MapInsert(next_packet_to_send, node, max_label), buffer,
                        None,
                        [k \in 1..Len(listed) |-> Process(listed[k].packet, on_shard, to_nodes)],
                        None)
    ELSE Leaves(last_packet_received, next_packet_to_send, buffer, None, <<>>, Some("unreachable"))

\* resume_at that starts after the label it is given
resume_at_skips_first(node, label, on_shard) ==
    IF inner = "Egress"
    THEN LET max_label == Len(buffer) + 1
             to_nodes == {node}
         IN IF label < 1 /\ label < max_label
            THEN Leaves(last_packet_received, next_packet_to_send, buffer, None, <<>>,
                        Some("self.buffer[i - 1]"))
            ELSE Leaves(last_packet_received, MapInsert(next_packet_to_send, node, max_label), buffer,
                        None,
                        [k \in 1..(max_label - label - 1) |->
                            Process(buffer[label + k].packet, on_shard, to_nodes)],
                        None)
    ELSE Leaves(last_packet_received, next_packet_to_send, buffer, None, <<>>, Some("unreachable"))

\* Node::resume_at
resume_at(node, label, on_shard) ==
    IF inner = "Egress"
    THEN LET max_label == Len(buffer) + 1
             to_nodes == {node}
         IN IF label < 1 /\ label < max_label
            THEN Leaves(last_packet_received, next_packet_to_send, buffer, None, <<>>,
                        Some("self.buffer[i - 1]"))
            ELSE Leaves(last_packet_received, MapInsert(next_packet_to_send, node, max_label), buffer,
                        None,
                        [k \in 1..(max_label - label) |->
                            Process(buffer[label + k - 1].packet, on_shard, to_nodes)],
                        None)
    ELSE Leaves(last_packet_received, next_packet_to_send, buffer, None, <<>>, Some("unreachable"))

\* a set of node indices as the sequence an iterator yields it in
RECURSIVE Collect(_)
Collect(S) == IF S = {} THEN <<>> ELSE <<Min(S)>> \o Collect(S \ {Min(S)})

\* DanglingDomainNode::finalize: the children are the outgoing neighbours in
\* the node's own domain, by local address; every outgoing neighbour gets
\* next_packet_to_send 1 under its global address
finalize(g) ==
    [children |-> Collect(g.out \cap g.domain),
     next |-> [ni \in DOMAIN next_packet_to_send \cup {nodes[c].global_addr : c \in g.out} |->
                  IF \E c \in g.out : nodes[c].global_addr = ni THEN 1 ELSE next_packet_to_send[ni]]]

\* Node::add_child
add_child(child) == Append(children, child)

\* Vec::swap_remove
swap_remove(v, i) ==
    LET moved == [v EXCEPT ![i] = v[Len(v)]]
    IN SubSeq(moved, 1, Len(v) - 1)

\* Node::try_remove_child
try_remove_child(child) ==
    LET found == {i \in 1..Len(children) : children[i] = child}
    IN IF found = {} THEN [children |-> children, ret |-> Some(FALSE)]
       ELSE [children |-> swap_remove(children, Min(found)), ret |-> Some(TRUE)]

\* ------------------------------------------------------------- actions
Persistent == params.mode \in {"DeleteOnExit", "Permanent"}

DataOf(entries) == [i \in 1..Len(entries) |-> entries[i].data]
Inputs(entries) == [i \in 1..Len(entries) |-> [data |-> entries[i].data, tracer |-> entries[i].tracer]]

\* the state a handler leaves, and the history of what was flushed
Commit(r, enq) ==
    /\ pending_packets' = r.pending
    /\ wait_start' = r.wait_start
    /\ files' = r.files
    /\ fs' = r.store
    /\ transaction_state' = r.ts
    /\ ret' = r.ret
    /\ io' = r.io
    /\ debug' = r.debug
    /\ IF IsSome(r.ret)
       THEN LET n == Unwrap(r.ret).link.dst
            IN /\ batches' = [batches EXCEPT ![n] = Append(@, Inputs(enq[n]))]
               /\ enqueued' = [enq EXCEPT ![n] = <<>>]
               /\ merged' = [merged EXCEPT ![n] = Append(@, Unwrap(r.ret).data)]
       ELSE /\ batches' = batches
            /\ enqueued' = enq
            /\ merged' = merged

\* GroupCommitQueueSet::new
QueueInit ==
    /\ params \in [queue_capacity : 1..MaxCapacity,
                   flush_timeout : 0..MaxTimeout,
                   mode : Modes,
                   log_prefix : {"soup"}]
    /\ domain_index = 0
    /\ domain_shard = 0
    /\ pending_packets = EmptyMap
    /\ wait_start = EmptyMap
    /\ files = EmptyMap
    /\ status = "live"
    /\ now = 0
    /\ fs = EmptyMap
    /\ transaction_state = [time |-> 0]
    /\ ret = None
    /\ op = [name |-> "new"]
    /\ io = <<>>
    /\ debug = <<>>
    /\ peak = 0
    /\ enqueued = [n \in Nodes |-> <<>>]
    /\ batches = [n \in Nodes |-> <<>>]
    /\ unlinked = [n \in Nodes |-> 0]
    /\ inherited = [n \in Nodes |-> 0]
    /\ nappends = 0
    /\ sinceCall = 0
    /\ sinceNone = 0
    /\ appended = [n \in Nodes |-> <<>>]
    /\ merged = [n \in Nodes |-> <<>>]

\* Node::new: no children, empty maps, empty buffer
NodeNew ==
    /\ children = <<>>
    /\ last_packet_received = EmptyMap
    /\ next_packet_to_send = EmptyMap
    /\ buffer = <<>>
    /\ finalized = FALSE
    /\ panic = None

\* the queue set of a domain whose nodes are left alone
Init ==
    /\ QueueInit
    /\ NodeNew
    /\ inner = "Base"
    /\ graph = [out |-> {}, domain |-> {}]

\* the driver's record: a gap longer than Eps is never forgotten
Later(since) == IF since > Eps THEN since ELSE since + 1
Restart(since) == IF since > Eps THEN since ELSE 0

\* a call of append with a VtMessage for base node n
AppendPacket(n, d, tr) ==
    /\ status = "live"
    /\ nappends < MaxAppends
    /\ LET p == VtMessage(n, d, tr)
       IN /\ Commit(append(p), [enqueued EXCEPT ![n] = Append(@, [data |-> d, tracer |-> tr, at |-> now])])
          /\ peak' = Len(pushed(p)[n])
          /\ op' = [name |-> "append", node |-> n,
                    before |-> IF n \in DOMAIN pending_packets THEN Len(pending_packets[n]) ELSE 0]
    /\ nappends' = nappends + 1
    /\ UNCHANGED <<params, domain_index, domain_shard, status, now, unlinked, inherited,
                   sinceCall, sinceNone>>
    /\ UNCHANGED nodevars
    /\ appended' = [appended EXCEPT ![n] = Append(@, d)]

\* a call of flush_if_necessary
FlushIfNecessary ==
    /\ status = "live"
    /\ Commit(flush_if_necessary, enqueued)
    /\ peak' = 0
    /\ op' = [name |-> "flush_if_necessary"]
    /\ sinceCall' = Restart(sinceCall)
    /\ sinceNone' = IF IsSome(flush_if_necessary.ret) THEN sinceNone ELSE Restart(sinceNone)
    /\ UNCHANGED <<params, domain_index, domain_shard, status, now, unlinked, inherited,
                   nappends>>
    /\ UNCHANGED nodevars
    /\ appended' = appended

\* time passes
Tick ==
    /\ status = "live"
    /\ now < MaxTime
    /\ now' = now + 1
    /\ sinceCall' = Later(sinceCall)
    /\ sinceNone' = Later(sinceNone)
    /\ ret' = None
    /\ op' = [name |-> "tick"]
    /\ io' = <<>>
    /\ debug' = <<>>
    /\ peak' = 0
    /\ UNCHANGED <<params, domain_index, domain_shard, pending_packets, wait_start, files,
                   status, fs, transaction_state, enqueued, batches, unlinked, inherited,
                   nappends>>
    /\ UNCHANGED nodevars
    /\ UNCHANGED <<appended, merged>>

\* drop that removes the files whatever the mode
removed_on_drop_any_mode == {files[n].path : n \in DOMAIN files}

\* the paths fs::remove_file is called on in drop
removed_on_drop ==
    IF params.mode = "DeleteOnExit" THEN {files[n].path : n \in DOMAIN files} ELSE {}

\* Drop for GroupCommitQueueSet: under DeleteOnExit every file of `files` is
\* removed; the queues, the timestamps and the writers go with the value
Drop ==
    /\ status = "live"
    /\ status' = "dropped"
    /\ LET gone == removed_on_drop
       IN /\ fs' = [path \in (DOMAIN fs) \ gone |-> fs[path]]
          /\ unlinked' = [n \in Nodes |->
                            IF n \in DOMAIN files /\ files[n].path \in gone
                            THEN Len(batches[n]) ELSE unlinked[n]]
    /\ pending_packets' = EmptyMap
    /\ wait_start' = EmptyMap
    /\ files' = EmptyMap
    /\ enqueued' = [n \in Nodes |-> <<>>]
    /\ ret' = None
    /\ op' = [name |-> "drop"]
    /\ io' = <<>>
    /\ debug' = <<>>
    /\ peak' = 0
    /\ UNCHANGED <<params, domain_index, domain_shard, now, transaction_state, batches,
                   inherited, nappends, sinceCall, sinceNone>>
    /\ UNCHANGED nodevars
    /\ appended' = [n \in Nodes |-> Flatten([i \in 1..Len(batches[n]) |-> DataOf(batches[n][i])])]
    /\ merged' = merged

\* GroupCommitQueueSet::new again, with the same parameters, domain and shard
New ==
    /\ status = "dropped"
    /\ params.queue_capacity > 0
    /\ status' = "live"
    /\ pending_packets' = EmptyMap
    /\ wait_start' = EmptyMap
    /\ files' = EmptyMap
    /\ ret' = None
    /\ op' = [name |-> "new"]
    /\ io' = <<>>
    /\ debug' = <<>>
    /\ peak' = 0
    /\ inherited' = [n \in Nodes |-> Len(batches[n])]
    /\ UNCHANGED <<params, domain_index, domain_shard, now, fs, transaction_state,
                   enqueued, batches, unlinked, nappends, sinceCall, sinceNone>>
    /\ UNCHANGED nodevars
    /\ UNCHANGED <<appended, merged>>

\* the process or the machine dies; nothing of the memory survives
Crashed(store, cut, calls, what) ==
    /\ status' = "crashed"
    /\ fs' = CrashOutcome(store, cut)
    /\ pending_packets' = EmptyMap
    /\ wait_start' = EmptyMap
    /\ files' = EmptyMap
    /\ enqueued' = [n \in Nodes |-> <<>>]
    /\ ret' = None
    /\ op' = what
    /\ io' = calls
    /\ debug' = <<>>
    /\ peak' = 0
    /\ UNCHANGED <<params, domain_index, domain_shard, now, transaction_state, batches,
                   unlinked, inherited, nappends, sinceCall, sinceNone>>
    /\ UNCHANGED nodevars
    /\ appended' = [n \in Nodes |-> Flatten([i \in 1..Len(batches[n]) |-> DataOf(batches[n][i])])]
    /\ merged' = merged

\* a crash between two operations
Crash ==
    /\ status = "live"
    /\ Crashed(fs, 0, <<>>, [name |-> "crash"])

\* how much of the unsynced text a crash is taken to keep: nothing, half,
\* all but the last byte, all
CrashCuts(len) == {0, len \div 2, len - 1, len} \cap (0..len)

\* the values of pending_packets with which a flush of node n can start in
\* this state: from flush_if_necessary, or from an append that fills the queue
FlushInputs(n) ==
    (IF needs_flush = Some(n) THEN {pending_packets} ELSE {})
    \cup (IF nappends < MaxAppends
          THEN {pend \in {pushed(VtMessage(n, d, None)) : d \in DataSet} :
                   Len(pend[n]) >= params.queue_capacity}
          ELSE {})

\* a crash inside the flush of node n, after its step `upto` and before
\* sync_data has returned; the flush is the one append(p) or
\* flush_if_necessary would run in this state
CrashInFlush(n, upto) ==
    /\ status = "live"
    /\ Persistent
    /\ \E pend \in FlushInputs(n) :
          LET per == Persist(n, pend, upto)
          IN \E cut \in CrashCuts(Len(per.store[per.files[n].path].cache)) :
                Crashed(per.store, cut, per.io,
                        [name |-> "crash_in_flush", node |-> n, lost |-> DataOf(pend[n])])

Next ==
    \/ \E n \in Nodes, d \in DataSet : AppendPacket(n, d, None)
    \/ FlushIfNecessary
    \/ Tick
    \/ Drop
    \/ New
    \/ Crash
    \/ \E n \in Nodes, upto \in 1..3 : CrashInFlush(n, upto)

Spec == Init /\ [][Next]_vars

\* the queue fed with traced packets, in memory only
InitTrace == Init /\ params.mode = "MemoryOnly"

NextTrace ==
    \/ \E n \in Nodes, d \in DataSet, tr \in Tracers(nappends + 1) : AppendPacket(n, d, tr)
    \/ FlushIfNecessary
    \/ Tick

SpecTrace == InitTrace /\ [][NextTrace]_vars

\* ------------------------------------------------------ should_append
\* the parameters of the queue set in the specifications that leave it alone
QuietParams == [queue_capacity |-> MaxCapacity, flush_timeout |-> MaxTimeout,
                mode |-> "MemoryOnly", log_prefix |-> "soup"]

\* the packets offered to should_append: one of each variant per node
Offered ==
    UNION {{VtMessage(n, <<"a">>, None),
            Message(PacketId(n, Me), n, <<"a">>),
            ReplayPiece(PacketId(n, Me), n, <<"a">>),
            Input(n, <<"a">>)} : n \in Nodes}

InitAppendable == Init /\ params = QuietParams

\* a call of should_append with packet p in a domain whose node n is of
\* variant kinds[n]
ShouldAppend(p, kinds) ==
    /\ ret' = Some(should_append(p, DomainNodes(kinds)))
    /\ op' = [name |-> "should_append", p |-> p, kinds |-> kinds]
    /\ io' = <<>>
    /\ debug' = <<>>
    /\ peak' = 0
    /\ UNCHANGED <<params, domain_index, domain_shard, pending_packets, wait_start, files,
                   status, now, fs, transaction_state, enqueued, batches, unlinked,
                   inherited, nappends, sinceCall, sinceNone>>
    /\ UNCHANGED nodevars
    /\ UNCHANGED <<appended, merged>>

NextAppendable == \E p \in Offered, kinds \in [Nodes -> NodeTypes] : ShouldAppend(p, kinds)

SpecAppendable == InitAppendable /\ [][NextAppendable]_vars

\* ------------------------------------------------------ incoming labels
\* the variables of the queue set that the handlers of Node leave alone
queuevars == <<params, domain_index, domain_shard, pending_packets, wait_start, files,
               status, now, fs, transaction_state, debug, peak, enqueued, batches,
               unlinked, inherited, nappends, sinceCall, sinceNone, appended, merged>>

\* the state a handler of Node leaves
CommitNode(r) ==
    /\ last_packet_received' = r.last
    /\ next_packet_to_send' = r.next
    /\ buffer' = r.buffer
    /\ ret' = r.ret
    /\ io' = r.io
    /\ panic' = r.panic

\* the packets a parent sends: each variant, from each peer, under each label
Arriving ==
    UNION {{Message(PacketId(l, from), Min(Nodes), <<"a">>),
            ReplayPiece(PacketId(l, from), Min(Nodes), <<"a">>)} : l \in 0..MaxLabel, from \in NodeIndexes}
    \cup {Input(Min(Nodes), <<"a">>), VtMessage(Min(Nodes), <<"a">>, None)}

\* a node of a domain: Node::new, of the variant it is built with, in a
\* graph where it has the outgoing neighbours graph.out, those of
\* graph.domain in its own domain
InitNode ==
    /\ QueueInit
    /\ params = QuietParams
    /\ NodeNew
    /\ inner \in {"Egress", "Internal"}
    /\ graph \in {[out |-> o, domain |-> d] : o \in SUBSET Nodes, d \in SUBSET Nodes}

InitIncoming == InitNode /\ inner = "Internal" /\ graph = [out |-> {}, domain |-> {}]

\* a call of receive_packet
ReceivePacket(m) ==
    /\ panic = None
    /\ CommitNode(receive_packet(m))
    /\ op' = [name |-> "receive_packet", m |-> m, before |-> last_packet_received]
    /\ UNCHANGED <<inner, children, graph, finalized>>
    /\ UNCHANGED queuevars

\* a call of new_incoming
NewIncoming(old, new) ==
    /\ panic = None
    /\ CommitNode(new_incoming(old, new))
    /\ op' = [name |-> "new_incoming", old |-> old, new |-> new, before |-> last_packet_received]
    /\ UNCHANGED <<inner, children, graph, finalized>>
    /\ UNCHANGED queuevars

NextIncoming ==
    \/ \E m \in Arriving : ReceivePacket(m)
    \/ \E old \in NodeIndexes, new \in NodeIndexes : NewIncoming(old, new)

SpecIncoming == InitIncoming /\ [][NextIncoming]_vars

\* ------------------------------------------------------ outgoing labels
\* the records of the packet a node sends under a label
Payload(label) == [i \in 1..label |-> "a"]

\* the packet a node sends under a label, as the sender `from`
Outgoing(label, from) == Message(PacketId(label, from), Min(Nodes), Payload(label))

\* a node that sends to other domains: none of its neighbours is a child
InitOutgoing == InitNode /\ graph.domain = {}

\* DanglingDomainNode::finalize
Finalize ==
    /\ ~finalized
    /\ finalized' = TRUE
    /\ children' = finalize(graph).children
    /\ next_packet_to_send' = finalize(graph).next
    /\ ret' = None
    /\ op' = [name |-> "finalize"]
    /\ io' = <<>>
    /\ UNCHANGED <<inner, last_packet_received, buffer, graph, panic>>
    /\ UNCHANGED queuevars

\* a call of send_external_packet
SendExternal(label, from, to) ==
    /\ finalized
    /\ panic = None
    /\ CommitNode(send_external_packet(Outgoing(label, from), to))
    /\ op' = [name |-> "send_external_packet", label |-> label, from |-> from, to |-> to,
              old |-> MapGet(next_packet_to_send, to)]
    /\ UNCHANGED <<inner, children, graph, finalized>>
    /\ UNCHANGED queuevars

\* a call of resume_at
ResumeAt(node, label, on_shard) ==
    /\ finalized
    /\ panic = None
    /\ CommitNode(resume_at(node, label, on_shard))
    /\ op' = [name |-> "resume_at", node |-> node, label |-> label, on_shard |-> on_shard,
              old |-> MapGet(next_packet_to_send, node)]
    /\ UNCHANGED <<inner, children, graph, finalized>>
    /\ UNCHANGED queuevars

NextOutgoing ==
    \/ Finalize
    \/ \E label \in 0..MaxLabel, from \in {Me, Min(NodeIndexes)}, to \in NodeIndexes :
          SendExternal(label, from, to)
    \/ \E node \in NodeIndexes, label \in 0..(MaxLabel + 1), on_shard \in {None, Some(1)} :
          ResumeAt(node, label, on_shard)

SpecOutgoing == InitOutgoing /\ [][NextOutgoing]_vars

\* ------------------------------------------------------ the outgoing buffer
\* an egress node whose callers choose the payload of every packet
InitBuffer == InitOutgoing /\ inner = "Egress"

\* a call of send_external_packet with a packet of the node's own, under a
\* label and with records of the caller's choice
SendPayload(label, d, to) ==
    /\ finalized
    /\ panic = None
    /\ CommitNode(send_external_packet(Message(PacketId(label, Me), Min(Nodes), d), to))
    /\ op' = [name |-> "send_external_packet", label |-> label, from |-> Me, to |-> to,
              old |-> MapGet(next_packet_to_send, to), data |-> d]
    /\ UNCHANGED <<inner, children, graph, finalized>>
    /\ UNCHANGED queuevars

NextBuffer ==
    \/ Finalize
    \/ \E label \in 1..MaxEntries, d \in DataSet, to \in NodeIndexes : SendPayload(label, d, to)
    \/ \E node \in NodeIndexes, label \in 1..(MaxEntries + 1) : ResumeAt(node, label, None)

SpecBuffer == InitBuffer /\ [][NextBuffer]_vars

\* ------------------------------------------------------ children
\* a node with children in its own domain
InitChildren == InitNode /\ inner = "Internal"

\* a call of add_child: a node of the domain becomes a child
AddChild(child) ==
    /\ finalized
    /\ panic = None
    /\ Len(children) < MaxChildren
    /\ children' = add_child(child)
    /\ ret' = None
    /\ op' = [name |-> "add_child", child |-> child]
    /\ io' = <<>>
    /\ UNCHANGED <<inner, last_packet_received, next_packet_to_send, buffer, graph, finalized, panic>>
    /\ UNCHANGED queuevars

\* a call of try_remove_child
TryRemoveChild(child) ==
    /\ finalized
    /\ panic = None
    /\ children' = try_remove_child(child).children
    /\ ret' = try_remove_child(child).ret
    /\ op' = [name |-> "try_remove_child", child |-> child]
    /\ io' = <<>>
    /\ UNCHANGED <<inner, last_packet_received, next_packet_to_send, buffer, graph, finalized, panic>>
    /\ UNCHANGED queuevars

\* a call of send_internal_packet for the i-th child, with the packet of
\* the last label or of the next one
SendInternal(label, i) ==
    /\ finalized
    /\ panic = None
    /\ i \in 1..Len(children)
    /\ label \in {Len(buffer), next_packet_id.label} \cap 1..MaxLabel
    /\ CommitNode(send_internal_packet(Outgoing(label, Me), children[i]))
    /\ op' = [name |-> "send_internal_packet", label |-> label, to |-> children[i],
              old |-> MapGet(next_packet_to_send, nodes[children[i]].global_addr)]
    /\ UNCHANGED <<inner, children, graph, finalized>>
    /\ UNCHANGED queuevars

NextChildren ==
    \/ Finalize
    \/ \E child \in Nodes : AddChild(child)
    \/ \E child \in Nodes : TryRemoveChild(child)
    \/ \E label \in 1..MaxLabel, i \in 1..MaxChildren : SendInternal(label, i)

SpecChildren == InitChildren /\ [][NextChildren]_vars

\* ------------------------------------------------------ the driver's sleep
\* the queue set in memory only, asked how long the driver may sleep
InitSleep == Init /\ params.mode = "MemoryOnly"

\* a call of duration_until_flush
DurationUntilFlush ==
    /\ status = "live"
    /\ ret' = duration_until_flush
    /\ op' = [name |-> "duration_until_flush"]
    /\ io' = <<>>
    /\ debug' = <<>>
    /\ peak' = 0
    /\ UNCHANGED <<params, domain_index, domain_shard, pending_packets, wait_start, files,
                   status, now, fs, transaction_state, enqueued, batches, unlinked,
                   inherited, nappends, sinceCall, sinceNone>>
    /\ UNCHANGED nodevars
    /\ UNCHANGED <<appended, merged>>

NextSleep ==
    \/ \E n \in Nodes, d \in DataSet : AppendPacket(n, d, None)
    \/ FlushIfNecessary
    \/ Tick
    \/ DurationUntilFlush

SpecSleep == InitSleep /\ [][NextSleep]_vars

\* ------------------------------------------------------------- claims
\* the node the last operation returned a merged packet for, and its batch:
\* the packets appended to that node since its previous flush, in append order
Flushed == Unwrap(ret).link.dst
LastBatch == batches[Flushed][Len(batches[Flushed])]

\* C1 (flush FIFO): the data of every merged packet returned for a node is
\* the concatenation, in append order, of the data of the packets appended to
\* that node since its previous flush, whatever was appended to other nodes.
C1_FlushFifo ==
    IsSome(ret) => Unwrap(ret).data = Flatten(DataOf(LastBatch))

C1_Witness ==
    /\ IsSome(ret)
    /\ Len(LastBatch) >= 2
    /\ LastBatch[1].data # LastBatch[2].data
    /\ \E m \in Nodes \ {Flushed} : enqueued[m] # <<>>

\* C2 (capacity bound): between operations every queue is shorter than the
\* capacity, inside an operation no queue is longer than the capacity, and
\* an append returns a merged packet (of its own node) exactly when it
\* brings the queue of its node to the capacity.
C2_CapacityBound ==
    /\ \A n \in DOMAIN pending_packets : Len(pending_packets[n]) < params.queue_capacity
    /\ peak <= params.queue_capacity
    /\ op.name = "append" =>
          /\ IsSome(ret) <=> (op.before + 1 = params.queue_capacity)
          /\ IsSome(ret) => Flushed = op.node /\ Len(LastBatch) = params.queue_capacity

C2_Witness ==
    /\ op.name = "append"
    /\ IsSome(ret)
    /\ op.before = 1
    /\ peak = params.queue_capacity

\* C3: for every node, its queue is non-empty exactly when it has a
\* wait_start entry.
C3_PendingIffWaitStart ==
    \A n \in Nodes :
        (n \in DOMAIN pending_packets /\ pending_packets[n] # <<>>) <=> (n \in DOMAIN wait_start)

\* a node that was flushed and then appended to again, beside a node whose
\* queue a flush has emptied
C3_Witness ==
    /\ \E n \in Nodes : n \in DOMAIN wait_start /\ Len(batches[n]) > inherited[n]
    /\ \E n \in Nodes : n \in DOMAIN pending_packets /\ n \notin DOMAIN wait_start

\* the times the packets now queued have spent in their queues
QueuedAges == UNION {{now - enqueued[n][i].at : i \in 1..Len(enqueued[n])} : n \in Nodes}

\* C4 as stated (timeout bound): while flush_if_necessary has been called at
\* least once every Eps, no packet has been queued for longer than
\* flush_timeout + Eps.
C4_CalledEveryEps ==
    sinceCall <= Eps => \A age \in QueuedAges : age <= params.flush_timeout + Eps

\* C4 amended: while flush_if_necessary has been called until it returned
\* none at least once every Eps, no packet has been queued for longer than
\* flush_timeout + Eps.
C4_DrainedEveryEps ==
    sinceNone <= Eps => \A age \in QueuedAges : age <= params.flush_timeout + Eps

C4_Witness ==
    /\ sinceNone <= Eps
    /\ Cardinality(DOMAIN wait_start) >= 2
    /\ now > params.flush_timeout + Eps
    /\ \E age \in QueuedAges : age = params.flush_timeout + Eps

\* C5: a call of flush_if_necessary with no timed-out entry returns none and
\* changes nothing; with timed-out entries it flushes the first of them and
\* only that one, returns its merged packet, and leaves the queue and the
\* wait_start entry of every other node as they were.
C5_FlushesFirstTimedOut ==
    [][op'.name = "flush_if_necessary" =>
        LET late == {n \in DOMAIN wait_start : now - wait_start[n] >= params.flush_timeout}
            first == Min(late)
        IN IF late = {}
           THEN /\ ret' = None
                /\ UNCHANGED <<pending_packets, wait_start, files, fs, transaction_state>>
           ELSE /\ IsSome(ret')
                /\ Unwrap(ret').link.dst = first
                /\ Unwrap(ret').data = Flatten(DataOf(pending_packets[first]))
                /\ pending_packets'[first] = <<>>
                /\ DOMAIN wait_start' = (DOMAIN wait_start) \ {first}
                /\ DOMAIN pending_packets' = DOMAIN pending_packets
                /\ \A m \in Nodes \ {first} :
                      /\ m \in DOMAIN pending_packets => pending_packets'[m] = pending_packets[m]
                      /\ m \in DOMAIN wait_start => wait_start'[m] = wait_start[m]
    ]_vars

\* a flush by timeout that left another timed-out node waiting
C5_Witness ==
    /\ op.name = "flush_if_necessary"
    /\ IsSome(ret)
    /\ \E m \in DOMAIN wait_start : now - wait_start[m] >= params.flush_timeout

\* the log of node n: its path, what a crash would leave of it, the lines
\* read back from that, and the batches whose lines it is to hold (those
\* flushed since the file was last removed)
PathOf(n) == log_path(params, n, domain_index, domain_shard)
DiskOf(n) == IF PathOf(n) \in DOMAIN fs THEN fs[PathOf(n)].disk ELSE <<>>
Decoded(text) == [i \in 1..Len(FileLines(text)) |-> FromJson(FileLines(text)[i])]
Expected(n) == [i \in 1..(Len(batches[n]) - unlinked[n]) |-> Some(DataOf(batches[n][unlinked[n] + i]))]

Calls(name) == {i \in 1..Len(io) : io[i] = name}
InOrder(a, b) == Calls(a) # {} /\ Calls(b) # {} /\ \A i \in Calls(a), j \in Calls(b) : i < j

\* C6 (durability): in the persistent modes, when an operation returns a
\* merged packet the line of its batch has been written, flushed out of the
\* buffered writer and synced, and is the last line on disk; after a crash
\* the disk holds the line of every batch that was returned, every complete
\* line on it parses, and at most one further line follows them, so a flush
\* cut short damages nothing but the tail.
C6_Durability ==
    Persistent =>
      /\ IsSome(ret) =>
            LET path == PathOf(Flushed)
                lines == Decoded(DiskOf(Flushed))
            IN /\ path \in DOMAIN fs
               /\ fs[path].cache = <<>>
               /\ files[Flushed].buf = <<>>
               /\ FileTail(fs[path].disk) = <<>>
               /\ lines # <<>>
               /\ lines[Len(lines)] = Some(DataOf(LastBatch))
               /\ InOrder("write", "flush")
               /\ InOrder("flush", "sync_data")
      /\ status = "crashed" =>
            \A n \in Nodes :
                LET lines == Decoded(DiskOf(n))
                IN /\ IsPrefix(Expected(n), lines)
                   /\ Len(lines) <= Len(Expected(n)) + 1
                   /\ \A i \in 1..Len(lines) : lines[i] # Bad

\* a crash inside a flush that left a cut-off line behind the line of a
\* batch that had been returned
C6_Witness ==
    /\ status = "crashed"
    /\ op.name = "crash_in_flush"
    /\ Expected(op.node) # <<>>
    /\ FileTail(DiskOf(op.node)) # <<>>

RECURSIVE Flushes(_)
Flushes(S) == IF S = {} THEN 0 ELSE LET n == Min(S) IN Len(batches[n]) + Flushes(S \ {n})

\* C7: an operation that returns a merged packet has called assign_time
\* once, as its last call and (in the persistent modes) after the write and
\* the sync of a non-empty batch; the packet carries the link of the batch
\* and the state VtCommitted of that assignment, with base the global
\* address of the node; an operation that returns none has not called
\* assign_time; so the number of assignments is the number of merged packets.
C7_AssignTimeOncePerBatch ==
    /\ IsSome(ret) =>
          /\ Cardinality(Calls("assign_time")) = 1
          /\ io[Len(io)] = "assign_time"
          /\ Persistent => InOrder("write", "sync_data") /\ InOrder("sync_data", "assign_time")
          /\ LastBatch # <<>>
          /\ Unwrap(ret).link = Link(Flushed)
          /\ Unwrap(ret).state = [tag |-> "VtCommitted",
                                  at |-> <<transaction_state.time, nodes[Flushed].global_addr>>,
                                  prev |-> transaction_state.time - 1,
                                  base |-> nodes[Flushed].global_addr]
    /\ ret = None => Calls("assign_time") = {}
    /\ transaction_state.time = Flushes(Nodes)

C7_Witness ==
    /\ IsSome(ret)
    /\ Persistent
    /\ Len(LastBatch) >= 2
    /\ transaction_state.time >= 2

\* C8 (log round trip, append only): in the persistent modes the log of a
\* node reads back, line by line, as the data of the batches flushed for
\* that node, each batch in append order and the batches in flush order,
\* with nothing after the last newline; under Permanent these are all the
\* batches ever flushed for the node, through every drop and re-creation
\* of the queue set.
C8_LogRoundTrip ==
    (Persistent /\ status # "crashed") =>
        \A n \in Nodes :
            /\ Decoded(DiskOf(n)) = Expected(n)
            /\ FileTail(DiskOf(n)) = <<>>
            /\ PathOf(n) \in DOMAIN fs => fs[PathOf(n)].cache = <<>>
            /\ params.mode = "Permanent" => unlinked[n] = 0

\* under Permanent, a batch of two packets logged behind a line that an
\* earlier queue set wrote
C8_Witness ==
    /\ params.mode = "Permanent"
    /\ IsSome(ret)
    /\ inherited[Flushed] >= 1
    /\ Len(LastBatch) >= 2
    /\ Len(FileLines(DiskOf(Flushed))) >= 2

\* C9 (file lifecycle): under MemoryOnly there is never a file nor a writer;
\* after the drop of a DeleteOnExit queue set no file is left; under
\* Permanent the file of every node that was flushed exists, dropped or
\* not; and a live persistent queue set holds a writer for exactly the nodes
\* it has flushed, each on the path of its node, whose file exists.
C9_FileLifecycle ==
    /\ params.mode = "MemoryOnly" => DOMAIN fs = {} /\ DOMAIN files = {} /\ Calls("open") = {} /\ Calls("write") = {}
    /\ (params.mode = "DeleteOnExit" /\ status = "dropped") => DOMAIN fs = {}
    /\ params.mode = "Permanent" => \A n \in Nodes : batches[n] # <<>> => PathOf(n) \in DOMAIN fs
    /\ (Persistent /\ status = "live") =>
          \A n \in Nodes :
              /\ n \in DOMAIN files <=> Len(batches[n]) > inherited[n]
              /\ n \in DOMAIN files => files[n].path = PathOf(n) /\ PathOf(n) \in DOMAIN fs

\* the drop of a DeleteOnExit queue set that had flushed two nodes
C9_Witness ==
    /\ params.mode = "DeleteOnExit"
    /\ op.name = "drop"
    /\ \A n \in Nodes : batches[n] # <<>>

HasSender(t) == IsSome(t) /\ IsSome(Unwrap(t).sender)

\* merged_tracer after the fold has taken the first i packets of the last batch
Accumulated(i) ==
    MergeFold([k \in 1..i |-> VtMessage(Flushed, LastBatch[k].data, LastBatch[k].tracer)],
              [data |-> <<>>, tracer |-> None, sent |-> <<>>]).tracer

\* C10 (tracer merge): at every packet of every batch, when the accumulated
\* tracer and the packet's tracer both have a sender the accumulated one is
\* kept and a Merged(kept tag, absorbed tag) event is sent; when only one of
\* them has a sender, that one is the tracer carried on; the merged packet
\* carries the tracer accumulated over the whole batch.
C10_TracerMerge ==
    IsSome(ret) =>
      /\ Unwrap(ret).tracer = Accumulated(Len(LastBatch))
      /\ \A i \in 1..Len(LastBatch) :
            LET acc == Accumulated(i - 1)
                next == LastBatch[i].tracer
                out == Accumulated(i)
            IN /\ (HasSender(acc) /\ HasSender(next)) =>
                     /\ out = acc
                     /\ \E e \in 1..Len(debug) :
                           debug[e].event = [type |-> "Merged", mtag |-> Unwrap(acc).tag, tag |-> Unwrap(next).tag]
               /\ (HasSender(acc) /\ ~HasSender(next)) => out = acc
               /\ (~HasSender(acc) /\ HasSender(next)) => out = next

\* C11: should_append returns true exactly for a VtMessage whose destination
\* is a base node, so that every write directed at a base node goes into the
\* group-commit queue; it returns false for every other packet variant and
\* every other kind of destination
C11_AppendsBaseWrites ==
    op.name = "should_append" =>
        (Unwrap(ret) <=> (Variant(op.p) = "VtMessage" /\ op.kinds[op.p.link.dst] = "Base"))

\* the label stored for peer s in map m, 0 when it has none
Stored(m, s) == unwrap_or(MapGet(m, s), 0)

\* C12: receive_packet of a Message or ReplayPiece from parent s with label l
\* is accepted exactly when l is greater than the label stored for s (0 when
\* none is), and then stores l for s and changes nothing else; otherwise the
\* domain dies on the ordering assertion.  Gaps are accepted, an Input leaves
\* the map as it was, so the labels stored for s by receive_packet increase
\* strictly
C12_InboundMonotonic ==
    op.name = "receive_packet" =>
        IF Variant(op.m) = "Input"
        THEN panic = None /\ last_packet_received = op.before
        ELSE Variant(op.m) \in {"Message", "ReplayPiece"} =>
                LET s == op.m.id.from
                    l == op.m.id.label
                IN /\ panic = None <=> l > Stored(op.before, s)
                   /\ panic # None => panic = Some("label > old_label.unwrap_or(0)")
                   /\ panic = None =>
                        /\ last_packet_received = MapInsert(op.before, s, l)
                        /\ last_packet_received[s] > Stored(op.before, s)

\* a label is accepted over a gap: the parent's stored label was at least 1
\* and the accepted one is more than one above it
C12_Witness ==
    /\ op.name = "receive_packet"
    /\ Variant(op.m) \in {"Message", "ReplayPiece"}
    /\ panic = None
    /\ Stored(op.before, op.m.id.from) >= 1
    /\ op.m.id.label > Stored(op.before, op.m.id.from) + 1

\* C13 as stated: new_incoming(old, new) returns the label stored for old
\* plus one (1 when old has none), stores the label under new and removes
\* the key old, whatever the pair, old = new included
C13_RekeyRemovesOld ==
    op.name = "new_incoming" =>
        /\ ret = Some(Stored(op.before, op.old) + 1)
        /\ op.new \in DOMAIN last_packet_received
        /\ last_packet_received[op.new] = Stored(op.before, op.old)
        /\ op.old \notin DOMAIN last_packet_received

\* C13: new_incoming(old, new) returns the label stored for old plus one (1
\* when old has none) and stores the label of old (0 when it has none) under
\* new, replacing what new had; the key old is removed when old differs
\* from new and stays, with its label, when old = new; no other key changes
C13_Rekey ==
    op.name = "new_incoming" =>
        /\ ret = Some(Stored(op.before, op.old) + 1)
        /\ op.new \in DOMAIN last_packet_received
        /\ last_packet_received[op.new] = Stored(op.before, op.old)
        /\ op.old # op.new => op.old \notin DOMAIN last_packet_received
        /\ \A k \in (DOMAIN op.before \cup DOMAIN last_packet_received) \ {op.old, op.new} :
              /\ k \in DOMAIN op.before
              /\ k \in DOMAIN last_packet_received
              /\ last_packet_received[k] = op.before[k]

\* a rekey onto a peer that already had a label of its own
C13_Witness ==
    /\ op.name = "new_incoming"
    /\ op.old # op.new
    /\ op.old \in DOMAIN op.before
    /\ op.new \in DOMAIN op.before
    /\ op.before[op.old] >= 1
    /\ op.before[op.new] > op.before[op.old]
    /\ ret = Some(op.before[op.old] + 1)

\* a step that is a call of send_external_packet by the node itself
SendStep == op'.name = "send_external_packet" /\ op'.from = Me /\ op' # op

\* the labels of the buffer are 1, 2, 3, ... in order
Sequential(buf) == \A i \in 1..Len(buf) : buf[i].packet.id.label = i /\ buf[i].packet.id.from = Me

\* C14: the buffer of a node holds the packets labelled 1, 2, 3, ... in
\* that order, without gap or reorder; a call of send_external_packet with
\* a label above |buffer| + 1 aborts, a call with an earlier label only
\* registers one more recipient, and a call with the label of
\* next_packet_id(), |buffer| + 1, passes the assertion on the label and
\* appends the packet as the next entry
C14_OutboundSequential ==
    [][SendStep =>
        /\ Sequential(buffer')
        /\ op'.label > Len(buffer) + 1 =>
              panic' = Some("outgoing labels increase sequentially") /\ buffer' = buffer
        /\ op'.label = next_packet_id.label =>
              /\ panic' # Some("outgoing labels increase sequentially")
              /\ buffer' = Append(buffer, [packet |-> Outgoing(op'.label, Me), to_nodes |-> {op'.to}])
        /\ op'.label \in 1..Len(buffer) =>
              /\ Len(buffer') = Len(buffer)
              /\ \A i \in 1..Len(buffer) : buffer'[i].packet = buffer[i].packet
      ]_vars

\* the third new label in a row has been taken, after a label was repeated
\* for a second recipient
C14_Witness ==
    /\ op.name = "send_external_packet"
    /\ panic = None
    /\ op.label = Len(buffer)
    /\ Len(buffer) >= 3
    /\ buffer[op.label].to_nodes = {op.to}
    /\ \E i \in 1..(Len(buffer) - 1) : Cardinality(buffer[i].to_nodes) > 1

\* the state of scenario S4: labels 1 to 3 went to the active c only, label 4
\* to the paused d and then to c
AfterS4(c, d) ==
    /\ op.name = "send_external_packet"
    /\ op.label = Len(buffer)
    /\ op.to = c
    /\ panic = None
    /\ ret = Some(TRUE)
    /\ Len(buffer) > 1
    /\ \A i \in 1..(Len(buffer) - 1) : buffer[i].to_nodes = {c}
    /\ d \in buffer[Len(buffer)].to_nodes
    /\ buffer[Len(buffer)].to_nodes \subseteq {c, d}
    /\ d \notin DOMAIN next_packet_to_send

\* C15: a call of send_external_packet(p, to) that does not abort returns
\* true exactly when to is a key of next_packet_to_send, and then sets
\* next_packet_to_send[to] to the label of p plus one; when to is not a key
\* it returns false and leaves next_packet_to_send as it was.  Either way
\* to is in the destination set of the buffer entry of p's label, so that
\* after labels 1..3 to the active C and label 4 to the paused D and to C,
\* next_packet_to_send[C] is 5 and entry 4 lists C and D
C15_SendGate ==
    [][(SendStep /\ panic' = None) =>
        /\ ret' = Some(op'.to \in DOMAIN next_packet_to_send)
        /\ ret' = Some(TRUE) => next_packet_to_send' = MapInsert(next_packet_to_send, op'.to, op'.label + 1)
        /\ ret' = Some(FALSE) => next_packet_to_send' = next_packet_to_send
        /\ op'.to \in buffer'[op'.label].to_nodes
        /\ \A c \in NodeIndexes : \A d \in NodeIndexes \ {c} :
              AfterS4(c, d)' =>
                 /\ next_packet_to_send'[c] = Len(buffer') + 1
                 /\ buffer'[Len(buffer')].to_nodes = {c, d}
      ]_vars

\* scenario S4 has run: four entries, the last one for the paused
\* destination too
C15_Witness ==
    \E c \in NodeIndexes : \E d \in NodeIndexes \ {c} :
        /\ AfterS4(c, d)
        /\ Len(buffer) = MaxLabel
        /\ next_packet_to_send[c] = MaxLabel + 1
        /\ buffer[MaxLabel].to_nodes = {c, d}

\* C16 as stated: no buffer entry written while destination d is paused
\* lists d
C16_PausedNeverListed ==
    [][(SendStep /\ panic' = None) =>
        \A d \in NodeIndexes :
            (d \notin DOMAIN next_packet_to_send /\ d \notin DOMAIN next_packet_to_send') =>
                d \notin buffer'[op'.label].to_nodes
      ]_vars

\* C16: when send_external_packet(p, d) finds d active with
\* next_packet_to_send[d] = k, none of the buffer entries k .. label(p) - 1
\* lists d, and the call aborts if one does; an entry written for a paused
\* destination does list it
C16_SkipConsistency ==
    [][(SendStep /\ op'.label \in 1..(Len(buffer) + 1)) =>
        LET to == op'.to
            skipped == IF to \in DOMAIN next_packet_to_send
                       THEN next_packet_to_send[to]..(op'.label - 1) ELSE {}
        IN /\ (\E i \in skipped : to \in buffer'[i].to_nodes)
                 <=> panic' = Some("!buffer[i - 1].1.contains(&to)")
           /\ panic' = None => \A i \in skipped : to \notin buffer'[i].to_nodes
           /\ (panic' = None /\ to \notin DOMAIN next_packet_to_send) =>
                 to \in buffer'[op'.label].to_nodes
      ]_vars

\* a packet went to a destination that had been passed over for at least
\* one earlier label
C16_Witness ==
    /\ op.name = "send_external_packet"
    /\ panic = None
    /\ ret = Some(TRUE)
    /\ IsSome(op.old)
    /\ Unwrap(op.old) < op.label
    /\ \A i \in Unwrap(op.old)..(op.label - 1) : op.to \notin buffer[i].to_nodes

\* C17: resume_at(node, L, on_shard) on an egress whose buffer has M
\* entries, 1 <= L <= M + 1, calls the egress processor M - L + 1 times,
\* with clones of the entries L, L + 1, ..., M in that order, each with the
\* destination set {node} whatever the entry's own set is, and leaves
\* next_packet_to_send[node] = M + 1; with L = M + 1 it calls it not at all
C17_ResumeComplete ==
    (op.name = "resume_at" /\ inner = "Egress" /\ op.label \in 1..(Len(buffer) + 1)) =>
        LET M == Len(buffer)
            L == op.label
        IN /\ panic = None
           /\ Len(io) = M - L + 1
           /\ \A k \in 1..Len(io) :
                 /\ io[k].m = clone_data(buffer[L + k - 1].packet)
                 /\ io[k].m.id.label = L + k - 1
                 /\ io[k].to_nodes = {op.node}
                 /\ io[k].shard = unwrap_or(op.on_shard, 0)
           /\ op.node \in DOMAIN next_packet_to_send
           /\ next_packet_to_send[op.node] = M + 1
           /\ L = M + 1 => io = <<>>

\* scenario S5: a paused node is resumed at label 1 and gets every entry,
\* those that never listed it too
C17_Witness ==
    /\ op.name = "resume_at"
    /\ panic = None
    /\ op.old = None
    /\ op.label = 1
    /\ Len(io) = Len(buffer)
    /\ Len(buffer) >= 3
    /\ \E i \in 1..Len(buffer) : op.node \notin buffer[i].to_nodes
    /\ \E i \in 1..Len(buffer) : op.node \in buffer[i].to_nodes

\* the labels withheld from destination d: it is paused, and nothing in the
\* node ever removes a key of next_packet_to_send, so every call that listed
\* d in an entry returned false
Withheld(d, buf) == {l \in 1..Len(buf) : d \in buf[l].to_nodes}

\* the calls of the egress processor replay entry l to d
Replayed(l, d) == \E k \in 1..Len(io) : io[k].m = clone_data(buffer[l].packet) /\ io[k].to_nodes = {d}

\* C18 as stated: every packet withheld from a paused destination d is
\* replayed to d by the next resume_at for d on the egress
C18_WithheldAllReplayed ==
    (op.name = "resume_at" /\ op.old = None /\ inner = "Egress" /\ op.label >= 1) =>
        \A l \in Withheld(op.node, buffer) : Replayed(l, op.node)

\* C18: the next resume_at(d, L) on an egress, L >= 1, replays to d, with
\* destination set {d}, every packet withheld from the paused d whose label
\* is at least L, and none whose label is below L
C18_WithheldReplayedFromLabel ==
    (op.name = "resume_at" /\ op.old = None /\ inner = "Egress" /\ op.label >= 1) =>
        /\ panic = None
        /\ \A l \in Withheld(op.node, buffer) : Replayed(l, op.node) <=> l >= op.label

\* a paused destination is resumed at a label between two packets that
\* were withheld from it
C18_Witness ==
    /\ op.name = "resume_at"
    /\ op.old = None
    /\ panic = None
    /\ \E l \in Withheld(op.node, buffer) : l < op.label
    /\ \E l \in Withheld(op.node, buffer) : l >= op.label /\ Replayed(l, op.node)

\* C19: finalize sets next_packet_to_send to 1 for every outgoing neighbour
\* of the node, and send_internal_packet to a node of the children list,
\* also after add_child and try_remove_child, never fails its assertion
\* that send_external_packet returned true
C19_ChildrenNeverPaused ==
    /\ op.name = "finalize" =>
          \A c \in graph.out :
              /\ nodes[c].global_addr \in DOMAIN next_packet_to_send
              /\ next_packet_to_send[nodes[c].global_addr] = 1
    /\ panic # Some("self.send_external_packet(m, to)")

\* the time destination n still has before its timeout, never below zero
Remaining(n) ==
    IF now - wait_start[n] >= params.flush_timeout THEN 0
    ELSE params.flush_timeout - (now - wait_start[n])

\* C20: duration_until_flush returns none exactly when no destination has
\* pending packets; otherwise it returns the least, over the entries of
\* wait_start, of flush_timeout minus the time elapsed, taken as zero when
\* the timeout has passed; and it returns zero exactly when
\* flush_if_necessary, called at the same instant, flushes a destination
C20_DurationUntilFlush ==
    op.name = "duration_until_flush" =>
        /\ ret = None <=> \A n \in Nodes : n \notin DOMAIN pending_packets \/ pending_packets[n] = <<>>
        /\ ret # None =>
              /\ \A n \in DOMAIN wait_start : Unwrap(ret) <= Remaining(n)
              /\ \E n \in DOMAIN wait_start : Unwrap(ret) = Remaining(n)
              /\ Unwrap(ret) >= 0
        /\ ret = Some(0) <=> IsSome(flush_if_necessary.ret)

\* two destinations wait, one past its timeout and one not: the answer is
\* zero, the least of the two
C20_Witness ==
    /\ op.name = "duration_until_flush"
    /\ Cardinality(DOMAIN wait_start) > 1
    /\ ret = Some(0)
    /\ \E n \in DOMAIN wait_start : Remaining(n) > 0
    /\ \E n \in DOMAIN wait_start : now - wait_start[n] > params.flush_timeout

\* destination n is in state Buffering: it has pending packets
Buffering(pend, n) == n \in DOMAIN pend /\ pend[n] # <<>>

\* C21: a destination is Empty or Buffering; it goes from Empty to
\* Buffering only on an append for it, which sets its wait_start to the
\* time of the call, and from Buffering to Empty only on a flush of its
\* pending records, by an append that reaches the capacity, by
\* flush_if_necessary, or by the drop of the queue set, which flushes what
\* is pending
C21_TwoStates ==
    [][(status = "live" /\ status' # "crashed") =>
        \A n \in Nodes :
            /\ (~Buffering(pending_packets, n) /\ Buffering(pending_packets', n)) =>
                  /\ op'.name = "append"
                  /\ op'.node = n
                  /\ n \in DOMAIN wait_start'
                  /\ wait_start'[n] = now
            /\ (Buffering(pending_packets, n) /\ ~Buffering(pending_packets', n)) =>
                  /\ op'.name \in {"append", "flush_if_necessary", "drop"}
                  /\ Len(batches'[n]) = Len(batches[n]) + 1
                  /\ IsPrefix(DataOf(pending_packets[n]), DataOf(batches'[n][Len(batches'[n])]))
      ]_vars

\* the records pending for destination n, in order
PendingData(n) == IF n \in DOMAIN pending_packets THEN Flatten(DataOf(pending_packets[n])) ELSE <<>>

\* C24: whatever the appends and the flushes were, the records appended to a
\* destination are, in their order, the records of the merged packets
\* returned for that destination followed by those still pending for it:
\* none is dropped, none is duplicated, none is in the packet of another
\* destination; and in the persistent modes the log of the destination has
\* one line per merged packet, holding its records, so that a record that
\* was written is in exactly one line
C24_Conservation ==
    status = "live" =>
        \A n \in Nodes :
            /\ Flatten(merged[n]) \o PendingData(n) = Flatten(appended[n])
            /\ Len(merged[n]) = Len(batches[n])
            /\ Persistent =>
                  LET lines == Decoded(DiskOf(n))
                  IN /\ Len(lines) = Len(merged[n]) - unlinked[n]
                     /\ \A i \in 1..Len(lines) :
                           /\ IsSome(lines[i])
                           /\ Flatten(Unwrap(lines[i])) = merged[n][unlinked[n] + i]

\* both destinations have been flushed, one of them twice or with more
\* waiting behind, and the log of each holds its lines
C24_Witness ==
    /\ status = "live"
    /\ Persistent
    /\ \A n \in Nodes : merged[n] # <<>> /\ Len(FileLines(DiskOf(n))) = Len(merged[n])
    /\ \E n \in Nodes : Len(appended[n]) > 1
    /\ nappends = MaxAppends

\* C25 as stated: over receive_packet and new_incoming calls in any order,
\* the label stored for a peer s (0 when it has none) never decreases
C25_NeverDecreases ==
    [][panic' = None =>
          \A s \in NodeIndexes : Stored(last_packet_received', s) >= Stored(last_packet_received, s)
      ]_vars

\* C25: a call of receive_packet that is accepted lowers the label stored
\* for no peer; a call of new_incoming(old, new) changes the labels of old
\* and new only: new gets the label old had (0 when old had none), whether
\* that is more or less than what new had, and old, when it is another
\* peer, is left with none; so the label stored for s decreases only in a
\* new_incoming call that names s
C25_DecreasesOnlyByRekey ==
    [][panic' = None =>
          \A s \in NodeIndexes :
              /\ op'.name = "receive_packet" =>
                    Stored(last_packet_received', s) >= Stored(last_packet_received, s)
              /\ op'.name = "new_incoming" =>
                    /\ s \notin {op'.old, op'.new} =>
                          Stored(last_packet_received', s) = Stored(last_packet_received, s)
                    /\ s = op'.new =>
                          Stored(last_packet_received', s) = Stored(last_packet_received, op'.old)
                    /\ (s = op'.old /\ s # op'.new) => Stored(last_packet_received', s) = 0
      ]_vars

\* new_incoming(old, new) was called when old had no label and new had one
\* of 2 or more: new is left with label 0, and the labels it had accepted
\* can be accepted from it again
C25_Witness ==
    /\ op.name = "new_incoming"
    /\ op.old \notin DOMAIN op.before
    /\ op.new \in DOMAIN op.before
    /\ op.before[op.new] >= 2
    /\ op.new \in DOMAIN last_packet_received
    /\ last_packet_received[op.new] = 0
    /\ panic = None

\* C23: the assertion of the gate on the skipped entries never fails: no
\* call of send_external_packet, after any calls of send_external_packet
\* with labels up to the length of the buffer plus one and any calls of
\* resume_at, finds an entry from next_packet_to_send[to] up to its own
\* label that lists to
C23_GateNeverFails == panic # Some("!buffer[i - 1].1.contains(&to)")

\* C22: the outgoing buffer is append-only.  In every step, a call of
\* send_external_packet or of resume_at included, the buffer gets no
\* shorter, every entry it had keeps its packet and loses no destination,
\* and entry k holds the packet of label k, so that a label is recorded in
\* one entry only; a call of resume_at leaves the buffer as it was
C22_AppendOnly ==
    [][/\ Len(buffer') >= Len(buffer)
       /\ \A k \in 1..Len(buffer) :
             /\ buffer'[k].packet = buffer[k].packet
             /\ buffer[k].to_nodes \subseteq buffer'[k].to_nodes
       /\ \A k \in 1..Len(buffer') : buffer'[k].packet.id.label = k
       /\ op'.name = "resume_at" => buffer' = buffer
      ]_vars

\* an earlier label was sent again, to another destination and with other
\* records: the entry has both destinations and the records it was first
\* given
C22_Witness ==
    /\ op.name = "send_external_packet"
    /\ panic = None
    /\ op.label < Len(buffer)
    /\ buffer[op.label].packet.data # op.data
    /\ op.to \in buffer[op.label].to_nodes
    /\ Cardinality(buffer[op.label].to_nodes) >= 2

====
